---- MODULE Spec2Model ----
(***************************************************************************)
(* Compile-time type checking of Java-like expression trees                *)
(* (java_type_checker/expressions.py).                                     *)
(*                                                                         *)
(* An expression node is a record whose "cls" field names its Python       *)
(* class and whose other fields are the attributes __init__ assigns.       *)
(* Every method of the module is an operator; a method that can raise      *)
(* returns a record with an "err" field.  check_types returns, next to     *)
(* the error, the object as the call leaves it ("self") and the sequence   *)
(* of steps it performed ("log").                                          *)
(***************************************************************************)
EXTENDS Integers, Sequences, FiniteSets, TLC

VARIABLES
    stack,           \* the expressions the client has built and not yet used as
                     \* children; a finished tree is a stack of one expression
    call,            \* the last operation the client invoked, with its arguments
    err,             \* how that operation ended: NoError or the exception raised
    ret,             \* the value it returned (a type name for static_type)
    log,             \* the steps the last check_types performed
    first,           \* how the first check_types on the finished tree ended
    again,           \* whether check_types was called on it more than once
    expected_types,  \* check_arguments called on its own: its three parameters
    actual_types,
    call_name,
    args_err         \* ... and how that call ended

vars == <<stack, call, err, ret, log, first, again,
          expected_types, actual_types, call_name, args_err>>

-----------------------------------------------------------------------------
(* Bounds *)

\* The expressions the client holds have at most MaxNodes nodes in all.
MaxNodes == 4

\* The type sequences handed to check_arguments have at most MaxLen entries.
MaxLen == 2

-----------------------------------------------------------------------------
(* The type lattice (types.py): a nominal type is modelled by its name.    *)

Type_null == "null"
Type_object == "Object"
Type_int == "int"
Type_Shape == "Shape"
Type_Point == "Point"

Types == {Type_object, Type_Shape, Type_Point, Type_int, Type_null}

\* class Point extends Shape; abstract class Shape extends Object
direct_supertypes(t) ==
    CASE t = Type_Point -> {Type_Shape}
      [] t = Type_Shape -> {Type_object}
      [] OTHER -> {}

RECURSIVE is_subtype_of(_, _)
is_subtype_of(t, other) ==
    \/ t = other
    \/ \E s \in direct_supertypes(t) : is_subtype_of(s, other)

is_supertype_of(t, other) == is_subtype_of(other, t)

is_instantiable(t) == t \in {Type_object, Type_Point}

\* The methods each type declares or inherits: name -> signature.
methods(t) ==
    CASE t = Type_Shape ->
           [m \in {"getX"} |-> [argument_types |-> <<>>, return_type |-> Type_int]]
      [] t = Type_Point ->
           [m \in {"getX", "add"} |->
              IF m = "getX"
              THEN [argument_types |-> <<>>, return_type |-> Type_int]
              ELSE [argument_types |-> <<Type_Shape>>, return_type |-> Type_Point]]
      [] OTHER -> [m \in {} |-> [argument_types |-> <<>>, return_type |-> Type_int]]

has_method(t, name) == name \in DOMAIN methods(t)

\* method_named returns the signature, or raises NoSuchMethod (has_method false).
method_named(t, name) == methods(t)[name]

constructor(t) ==
    IF t = Type_Point
    THEN [argument_types |-> <<Type_int, Type_int>>]
    ELSE [argument_types |-> <<>>]

MethodNames == {"getX", "add"}

-----------------------------------------------------------------------------
(* Outcomes *)

NoError == [kind |-> "ok"]

NoSuchMethod(t, name) == [kind |-> "NoSuchMethod", type |-> t, method |-> name]

\* Python's own errors: an attribute an object does not have, a call with
\* more positional arguments than the function takes.
AttributeError(cls, attr) == [kind |-> "AttributeError", cls |-> cls, attr |-> attr]

TypeError(fn, takes, given) ==
    [kind |-> "TypeError", fn |-> fn, takes |-> takes, given |-> given]

JavaTypeError(message) == [kind |-> "JavaTypeError", message |-> message]

Return(v) == [err |-> NoError, value |-> v]
Raise(e) == [err |-> e, value |-> "none"]

\* names(): the names of the types, in order (the model keeps the list
\* where the code joins it with ", " between parentheses).
names(named_things) == [i \in 1..Len(named_things) |-> named_things[i]]

-----------------------------------------------------------------------------
(* Expression nodes: the constructors *)

Variable(name, declared_type) ==
    [cls |-> "Variable", name |-> name, declared_type |-> declared_type]

Literal(value, type) ==
    [cls |-> "Literal", value |-> value, type |-> type]

\* NullLiteral.__init__(self) runs Literal.__init__(self, "null", Type.null).
NullLiteral_init ==
    [Literal("null", Type_null) EXCEPT !.cls = "NullLiteral"]

\* NullLiteral(*argv): __init__ takes no argument besides self, so a call
\* that passes any raises TypeError and produces no node.
NullLiteral(argv) ==
    IF Len(argv) # 0
    THEN Raise(TypeError("NullLiteral.__init__", 1, 1 + Len(argv)))
    ELSE Return(NullLiteral_init)

MethodCall(receiver, method_name, args) ==
    [cls |-> "MethodCall", receiver |-> receiver,
     method_name |-> method_name, args |-> args]

ConstructorCall(instantiated_type, args) ==
    [cls |-> "ConstructorCall", instantiated_type |-> instantiated_type,
     args |-> args]

\* Python attribute lookup: the attributes an object has
hasattr(obj, attr) == attr \in DOMAIN obj

-----------------------------------------------------------------------------
(* check_arguments *)

zip(xs, ys) ==
    [i \in 1..(IF Len(xs) < Len(ys) THEN Len(xs) ELSE Len(ys)) |-> <<xs[i], ys[i]>>]

\* The for loop of check_arguments from pair i on: the first pair whose
\* expected type is not a supertype of the actual type raises.
RECURSIVE check_pairs(_, _, _, _, _)
check_pairs(pairs, i, expected, actual, name) ==
    IF i > Len(pairs) THEN NoError
    ELSE IF ~is_supertype_of(pairs[i][1], pairs[i][2])
         THEN JavaTypeError([text |-> "expects arguments of type",
                             call_name |-> name,
                             expected_names |-> names(expected),
                             got_names |-> names(actual)])
         ELSE check_pairs(pairs, i + 1, expected, actual, name)

\* check_arguments without its length test: zip pairs the types up to the
\* end of the shorter list.
check_arguments_unmeasured(expected, actual, name) ==
    check_pairs(zip(expected, actual), 1, expected, actual, name)

\* check_arguments with the two tests in the other order.
check_arguments_pairs_first(expected, actual, name) ==
    LET pairwise == check_pairs(zip(expected, actual), 1, expected, actual, name)
    IN IF pairwise # NoError THEN pairwise
       ELSE IF Len(expected) # Len(actual)
       THEN JavaTypeError([text |-> "Wrong number of arguments",
                           call_name |-> name,
                           expected_len |-> Len(expected),
                           got_len |-> Len(actual)])
       ELSE NoError

check_arguments(expected, actual, name) ==
    IF Len(expected) # Len(actual)
    THEN JavaTypeError([text |-> "Wrong number of arguments",
                        call_name |-> name,
                        expected_len |-> Len(expected),
                        got_len |-> Len(actual)])
    ELSE check_pairs(zip(expected, actual), 1, expected, actual, name)

-----------------------------------------------------------------------------
(* static_type *)

Variable_static_type(self) == Return(self.declared_type)

Literal_static_type(self) == Return(self.type)

\* NullLiteral.static_type answering with the root of the reference types.
NullLiteral_static_type_object(self) == Return(Type_object)

NullLiteral_static_type(self) == Return(Type_null)

\* self.receiver.declared_type.method_named(self.method_name).return_type
MethodCall_static_type(self) ==
    IF ~hasattr(self.receiver, "declared_type")
    THEN Raise(AttributeError(self.receiver.cls, "declared_type"))
    ELSE IF ~has_method(self.receiver.declared_type, self.method_name)
    THEN Raise(NoSuchMethod(self.receiver.declared_type, self.method_name))
    ELSE Return(method_named(self.receiver.declared_type, self.method_name).return_type)

ConstructorCall_static_type(self) == Return(self.instantiated_type)

static_type(self) ==
    CASE self.cls = "Variable" -> Variable_static_type(self)
      [] self.cls = "Literal" -> Literal_static_type(self)
      [] self.cls = "NullLiteral" -> NullLiteral_static_type(self)
      [] self.cls = "MethodCall" -> MethodCall_static_type(self)
      [] self.cls = "ConstructorCall" -> ConstructorCall_static_type(self)

\* [arg.static_type() for arg in args] from argument i on: the types so far,
\* or the error of the first static_type() that raises.
RECURSIVE arg_static_types(_, _, _)
arg_static_types(args, i, acc) ==
    IF i > Len(args) THEN Return(acc)
    ELSE LET t == static_type(args[i])
         IN IF t.err # NoError THEN Raise(t.err)
            ELSE arg_static_types(args, i + 1, Append(acc, t.value))

-----------------------------------------------------------------------------
(* check_types *)

\* What a check_types call yields: the object as the call leaves it, the
\* exception it raised (NoError when it returned) and the steps it took.
Outcome(self, e, steps) == [self |-> self, err |-> e, log |-> steps]

Step(what) == [step |-> what]

\* The call arg.check_types() on argument i, with the steps of that call.
ArgStep(i, inner) == [step |-> "arg.check_types", index |-> i, inner |-> inner]

\* The call labels of lines 90 and 116.
method_call_name(type_name, method_name) == <<type_name, ".", method_name, "()">>
constructor_call_name(type_name) == <<type_name, " constructor">>

Variable_check_types(self) == Outcome(self, NoError, <<>>)

Literal_check_types(self) == Outcome(self, NoError, <<>>)

NullLiteral_check_types(self) == Outcome(self, NoError, <<>>)

RECURSIVE check_types(_)

\* The loop over the arguments gathering the errors instead of stopping at
\* the first: every argument is validated, the last error is the one raised.
RECURSIVE check_each_arg_gathering(_, _, _, _)
check_each_arg_gathering(args, i, steps, e) ==
    IF i > Len(args) THEN Outcome(args, e, steps)
    ELSE LET r == check_types(args[i])
         IN check_each_arg_gathering([args EXCEPT ![i] = r.self], i + 1,
                                     Append(steps, ArgStep(i, r.log)),
                                     IF r.err # NoError THEN r.err ELSE e)

check_each_arg_to_the_end(args, i, steps) ==
    check_each_arg_gathering(args, i, steps, NoError)

\* "for arg in self.args: arg.check_types()" from argument i on: the loop
\* ends at the first call that raises.  self is the list of arguments.
RECURSIVE check_each_arg(_, _, _)
check_each_arg(args, i, steps) ==
    IF i > Len(args) THEN Outcome(args, NoError, steps)
    ELSE LET r == check_types(args[i])
             args1 == [args EXCEPT ![i] = r.self]
             steps1 == Append(steps, ArgStep(i, r.log))
         IN IF r.err # NoError THEN Outcome(args1, r.err, steps1)
            ELSE check_each_arg(args1, i + 1, steps1)

\* The method lookup with NoSuchMethod caught and raised again as a
\* JavaTypeError.
MethodCall_check_call_wrapping(self, receiver_type, steps) ==
    LET s1 == Append(steps, Step("method_named"))
        actual == arg_static_types(self.args, 1, <<>>)
        s2 == Append(s1, Step("arg.static_type"))
        s3 == Append(s2, Step("check_arguments"))
    IN IF ~has_method(receiver_type, self.method_name)
       THEN Outcome(self,
                    JavaTypeError([text |-> "has no method",
                                   type |-> receiver_type,
                                   method |-> self.method_name]),
                    s1)
       ELSE IF actual.err # NoError THEN Outcome(self, actual.err, s2)
       ELSE Outcome(self,
                    check_arguments(
                        method_named(receiver_type, self.method_name).argument_types,
                        actual.value,
                        method_call_name(receiver_type, self.method_name)),
                    s3)

\* Lines 87-92: the method lookup, then the arguments against its signature.
MethodCall_check_call(self, receiver_type, steps) ==
    LET s1 == Append(steps, Step("method_named"))
        actual == arg_static_types(self.args, 1, <<>>)
        s2 == Append(s1, Step("arg.static_type"))
        s3 == Append(s2, Step("check_arguments"))
    IN IF ~has_method(receiver_type, self.method_name)
       THEN Outcome(self, NoSuchMethod(receiver_type, self.method_name), s1)
       ELSE IF actual.err # NoError THEN Outcome(self, actual.err, s2)
       ELSE Outcome(self,
                    check_arguments(
                        method_named(receiver_type, self.method_name).argument_types,
                        actual.value,
                        method_call_name(receiver_type, self.method_name)),
                    s3)

\* MethodCall.check_types without the test of lines 84-85: the method is
\* looked up on whatever type the receiver has.
MethodCall_check_receiver_unguarded(self, steps) ==
    LET receiver_type == static_type(self.receiver)
        s1 == Append(steps, Step("receiver.static_type"))
    IN IF receiver_type.err # NoError THEN Outcome(self, receiver_type.err, s1)
       ELSE MethodCall_check_call(self, receiver_type.value, s1)

\* Lines 83-85: the receiver's static type must be a reference type.
MethodCall_check_receiver(self, steps) ==
    LET receiver_type == static_type(self.receiver)
        s1 == Append(steps, Step("receiver.static_type"))
        s2 == Append(s1, Step("is_subtype_of"))
    IN IF receiver_type.err # NoError THEN Outcome(self, receiver_type.err, s1)
       ELSE IF ~is_subtype_of(receiver_type.value, Type_object)
       THEN Outcome(self,
                    JavaTypeError([text |-> "does not have methods",
                                   type |-> receiver_type.value]),
                    s2)
       ELSE MethodCall_check_call(self, receiver_type.value, s2)

\* MethodCall.check_types using its arguments up: self.args is left empty.
MethodCall_check_types_consuming(self) ==
    LET loop == check_each_arg(self.args, 1, <<>>)
        self1 == [self EXCEPT !.args = loop.self]
        used == [self EXCEPT !.args = <<>>]
    IN IF loop.err # NoError THEN Outcome(used, loop.err, loop.log)
       ELSE LET r == MethodCall_check_receiver(self1, loop.log)
            IN Outcome(used, r.err, r.log)

MethodCall_check_types(self) ==
    LET loop == check_each_arg(self.args, 1, <<>>)
        self1 == [self EXCEPT !.args = loop.self]
    IN IF loop.err # NoError THEN Outcome(self1, loop.err, loop.log)
       ELSE MethodCall_check_receiver(self1, loop.log)

\* ConstructorCall.check_types testing is_instantiable after the arguments.
ConstructorCall_check_types_arguments_first(self) ==
    LET loop == check_each_arg(self.args, 1, <<>>)
        self1 == [self EXCEPT !.args = loop.self]
        actual == arg_static_types(self1.args, 1, <<>>)
        s2 == Append(loop.log, Step("arg.static_type"))
        s3 == Append(s2, Step("check_arguments"))
        s4 == Append(s3, Step("is_instantiable"))
        checked == check_arguments(
                       constructor(self1.instantiated_type).argument_types,
                       actual.value,
                       constructor_call_name(self1.instantiated_type))
    IN IF loop.err # NoError THEN Outcome(self1, loop.err, loop.log)
       ELSE IF actual.err # NoError THEN Outcome(self1, actual.err, s2)
       ELSE IF checked # NoError THEN Outcome(self1, checked, s3)
       ELSE IF ~is_instantiable(self1.instantiated_type)
       THEN Outcome(self1,
                    JavaTypeError([text |-> "is not instantiable",
                                   type |-> self1.instantiated_type]),
                    s4)
       ELSE Outcome(self1, NoError, s4)

ConstructorCall_check_types(self) ==
    LET loop == check_each_arg(self.args, 1, <<>>)
        self1 == [self EXCEPT !.args = loop.self]
        s2 == Append(loop.log, Step("is_instantiable"))
        actual == arg_static_types(self1.args, 1, <<>>)
        s3 == Append(s2, Step("arg.static_type"))
        s4 == Append(s3, Step("check_arguments"))
    IN IF loop.err # NoError THEN Outcome(self1, loop.err, loop.log)
       ELSE IF ~is_instantiable(self1.instantiated_type)
       THEN Outcome(self1,
                    JavaTypeError([text |-> "is not instantiable",
                                   type |-> self1.instantiated_type]),
                    s2)
       ELSE IF actual.err # NoError THEN Outcome(self1, actual.err, s3)
       ELSE Outcome(self1,
                    check_arguments(
                        constructor(self1.instantiated_type).argument_types,
                        actual.value,
                        constructor_call_name(self1.instantiated_type)),
                    s4)

check_types(self) ==
    CASE self.cls = "Variable" -> Variable_check_types(self)
      [] self.cls = "Literal" -> Literal_check_types(self)
      [] self.cls = "NullLiteral" -> NullLiteral_check_types(self)
      [] self.cls = "MethodCall" -> MethodCall_check_types(self)
      [] self.cls = "ConstructorCall" -> ConstructorCall_check_types(self)

-----------------------------------------------------------------------------
(* The client: it builds an expression tree bottom-up with the five        *)
(* constructors, then calls check_types and static_type on the tree.       *)

VarNames == {"p"}
VariableTypes == {Type_Point, Type_Shape}
LiteralValues == {"3"}
LiteralTypes == {Type_int, Type_Point}
ConstructedTypes == {Type_Point, Type_Shape}

RECURSIVE Nodes(_)
RECURSIVE NodesOfAll(_)
NodesOfAll(exprs) ==
    IF exprs = <<>> THEN 0 ELSE Nodes(Head(exprs)) + NodesOfAll(Tail(exprs))

Nodes(e) ==
    CASE e.cls = "MethodCall" -> 1 + Nodes(e.receiver) + NodesOfAll(e.args)
      [] e.cls = "ConstructorCall" -> 1 + NodesOfAll(e.args)
      [] OTHER -> 1

RECURSIVE TypeSeqs(_)
TypeSeqs(n) ==
    IF n = 0 THEN {<<>>}
    ELSE TypeSeqs(n - 1) \cup {Append(s, t) : s \in TypeSeqs(n - 1), t \in Types}

CallNames ==
    {method_call_name(Type_Point, "add"), constructor_call_name(Type_Point)}

NotCalled == [kind |-> "not called"]

\* The last k expressions built, oldest first, and the stack below them.
Top(k) == SubSeq(stack, Len(stack) - k + 1, Len(stack))
Below(k) == SubSeq(stack, 1, Len(stack) - k)

\* The client holds one finished tree.
HasTree == Len(stack) = 1
tree == stack[1]

Init ==
    /\ stack = <<>>
    /\ call = [op |-> "none", argv |-> <<>>]
    /\ err = NoError
    /\ ret = "none"
    /\ log = <<>>
    /\ first = NotCalled
    /\ again = FALSE
    /\ expected_types = <<>>
    /\ actual_types = <<>>
    /\ call_name = <<>>
    /\ args_err = NotCalled

\* What every constructor call leaves: nothing was checked on the new tree.
Built(op, argv) ==
    /\ call' = [op |-> op, argv |-> argv]
    /\ err' = NoError
    /\ ret' = "none"
    /\ log' = <<>>
    /\ first' = NotCalled
    /\ again' = FALSE
    /\ UNCHANGED <<expected_types, actual_types, call_name, args_err>>

\* Variable(name, declared_type)
New_Variable(name, declared_type) ==
    /\ NodesOfAll(stack) < MaxNodes
    /\ stack' = Append(stack, Variable(name, declared_type))
    /\ Built("Variable", <<>>)

\* Literal(value, type)
New_Literal(value, type) ==
    /\ NodesOfAll(stack) < MaxNodes
    /\ stack' = Append(stack, Literal(value, type))
    /\ Built("Literal", <<>>)

\* NullLiteral(*argv): the exception of a failed call ends the building.
New_NullLiteral(argv) ==
    /\ NodesOfAll(stack) < MaxNodes
    /\ LET r == NullLiteral(argv)
       IN /\ stack' = IF r.err = NoError THEN Append(stack, r.value) ELSE <<>>
          /\ err' = r.err
    /\ call' = [op |-> "NullLiteral", argv |-> argv]
    /\ ret' = "none"
    /\ log' = <<>>
    /\ first' = NotCalled
    /\ again' = FALSE
    /\ UNCHANGED <<expected_types, actual_types, call_name, args_err>>

\* MethodCall(receiver, method_name, *args): the receiver and the k
\* arguments are the last k + 1 expressions built.
New_MethodCall(method_name, k) ==
    /\ Len(stack) >= k + 1
    /\ NodesOfAll(stack) < MaxNodes
    /\ stack' = Append(Below(k + 1),
                       MethodCall(Top(k + 1)[1], method_name, Tail(Top(k + 1))))
    /\ Built("MethodCall", <<>>)

\* ConstructorCall(instantiated_type, *args)
New_ConstructorCall(instantiated_type, k) ==
    /\ Len(stack) >= k
    /\ NodesOfAll(stack) < MaxNodes
    /\ stack' = Append(Below(k), ConstructorCall(instantiated_type, Top(k)))
    /\ Built("ConstructorCall", <<>>)

\* tree.check_types()
CheckTypes ==
    /\ HasTree
    /\ LET r == check_types(tree)
       IN /\ stack' = <<r.self>>
          /\ err' = r.err
          /\ log' = r.log
          /\ first' = IF first = NotCalled THEN r.err ELSE first
    /\ again' = (first # NotCalled)
    /\ call' = [op |-> "check_types", argv |-> <<>>]
    /\ ret' = "none"
    /\ UNCHANGED <<expected_types, actual_types, call_name, args_err>>

\* tree.static_type()
StaticType ==
    /\ HasTree
    /\ LET r == static_type(tree)
       IN /\ err' = r.err
          /\ ret' = r.value
    /\ call' = [op |-> "static_type", argv |-> <<>>]
    /\ log' = <<>>
    /\ UNCHANGED <<stack, first, again,
                   expected_types, actual_types, call_name, args_err>>

Next ==
    \/ \E n \in VarNames, t \in VariableTypes : New_Variable(n, t)
    \/ \E v \in LiteralValues, t \in LiteralTypes : New_Literal(v, t)
    \/ \E argv \in TypeSeqs(1) : New_NullLiteral(argv)
    \/ \E m \in MethodNames, k \in 0..(MaxNodes - 2) : New_MethodCall(m, k)
    \/ \E t \in ConstructedTypes, k \in 0..(MaxNodes - 1) : New_ConstructorCall(t, k)
    \/ CheckTypes
    \/ StaticType

Spec == Init /\ [][Next]_vars

-----------------------------------------------------------------------------
(* check_arguments called on its own, on every pair of type sequences *)

InitArgs ==
    /\ stack = <<>>
    /\ call = [op |-> "none", argv |-> <<>>]
    /\ err = NoError
    /\ ret = "none"
    /\ log = <<>>
    /\ first = NotCalled
    /\ again = FALSE
    /\ expected_types \in TypeSeqs(MaxLen)
    /\ actual_types \in TypeSeqs(MaxLen)
    /\ call_name \in CallNames
    /\ args_err = NotCalled

CallCheckArguments ==
    /\ args_err' = check_arguments(expected_types, actual_types, call_name)
    /\ UNCHANGED <<stack, call, err, ret, log, first, again,
                   expected_types, actual_types, call_name>>

NextArgs == CallCheckArguments

SpecArgs == InitArgs /\ [][NextArgs]_vars

-----------------------------------------------------------------------------
(* Properties *)

\* The client's last call was check_types / static_type on its tree.
Checked == HasTree /\ call.op = "check_types"
Typed == HasTree /\ call.op = "static_type"

IsMethodCall(e) == e.cls = "MethodCall"
IsConstructorCall(e) == e.cls = "ConstructorCall"

\* The arguments whose own check_types() fails.
FailingArgs(e) == {i \in 1..Len(e.args) : check_types(e.args[i]).err # NoError}
AllArgsPass(e) == FailingArgs(e) = {}
LeftmostFailingArg(e) ==
    CHOOSE i \in FailingArgs(e) : \A j \in FailingArgs(e) : i <= j

\* The receiver has a static type, and it is no reference type.
ReceiverNotAnObject(e) ==
    /\ static_type(e.receiver).err = NoError
    /\ ~is_subtype_of(static_type(e.receiver).value, Type_object)

DoesNotHaveMethods(e) ==
    /\ e.kind = "JavaTypeError"
    /\ e.message.text = "does not have methods"

StepsOf(steps) == {steps[i].step : i \in 1..Len(steps)}

\* C1 (as stated): check_types() on a MethodCall whose receiver's static type
\* is not a subtype of Type.object fails with the type error "does not have
\* methods", for every argument list.
C1_AnyArguments ==
    (Checked /\ IsMethodCall(tree) /\ ReceiverNotAnObject(tree))
        => DoesNotHaveMethods(err)

\* C1 (amended): check_types() on a MethodCall whose receiver's static type is
\* not a subtype of Type.object, and whose arguments each pass their own
\* check_types(), fails with the type error "does not have methods" naming
\* the receiver's type; when an argument fails its own check_types(), the
\* error of the leftmost such argument is raised instead.
C1_ArgumentsPass ==
    (Checked /\ IsMethodCall(tree) /\ ReceiverNotAnObject(tree))
        => IF AllArgsPass(tree)
           THEN /\ DoesNotHaveMethods(err)
                /\ err.message.type = static_type(tree.receiver).value
           ELSE err = check_types(tree.args[LeftmostFailingArg(tree)]).err

C1_Witness ==
    /\ Checked /\ IsMethodCall(tree) /\ ReceiverNotAnObject(tree)
    /\ AllArgsPass(tree) /\ Len(tree.args) = 2
    /\ tree.receiver.cls = "NullLiteral"

\* Every position of the two sequences is compatible.
Compatible(expected, actual) ==
    /\ Len(expected) = Len(actual)
    /\ \A i \in 1..Len(expected) : is_supertype_of(expected[i], actual[i])

\* C2: check_arguments(expected, actual, label) returns normally exactly when
\* the two sequences have the same length and every expected type is a
\* supertype of the actual type at its position; otherwise it raises
\* JavaTypeError.
C2_ReturnsIffCompatible ==
    args_err # NotCalled =>
        /\ (args_err = NoError) <=> Compatible(expected_types, actual_types)
        /\ args_err # NoError => args_err.kind = "JavaTypeError"

C2_Witness ==
    /\ args_err = NoError
    /\ Len(expected_types) = 2
    /\ expected_types[1] # actual_types[1]

\* C3: when the numbers of expected and actual types differ, check_arguments
\* raises the arity error, with the call label and both counts, also when a
\* pair of the common prefix is incompatible.
C3_ArityErrorFirst ==
    (args_err # NotCalled /\ Len(expected_types) # Len(actual_types))
        => args_err = JavaTypeError([text |-> "Wrong number of arguments",
                                     call_name |-> call_name,
                                     expected_len |-> Len(expected_types),
                                     got_len |-> Len(actual_types)])

C3_Witness ==
    /\ args_err # NotCalled
    /\ Len(expected_types) = 2 /\ Len(actual_types) = 1
    /\ ~is_supertype_of(expected_types[1], actual_types[1])

\* C4: check_types() on a ConstructorCall of a type that is not instantiable,
\* whose arguments each pass their own check_types(), fails with the type
\* error "is not instantiable", whatever the arguments' number and types.
C4_NotInstantiableFirst ==
    (/\ Checked /\ IsConstructorCall(tree)
     /\ ~is_instantiable(tree.instantiated_type) /\ AllArgsPass(tree))
        => err = JavaTypeError([text |-> "is not instantiable",
                                type |-> tree.instantiated_type])

C4_Witness ==
    /\ Checked /\ IsConstructorCall(tree)
    /\ ~is_instantiable(tree.instantiated_type) /\ AllArgsPass(tree)
    /\ Len(tree.args) # Len(constructor(tree.instantiated_type).argument_types)

\* C5: check_types() on a MethodCall whose receiver fails its own
\* check_types() fails.
C5_ReceiverValidated ==
    (Checked /\ IsMethodCall(tree) /\ check_types(tree.receiver).err # NoError)
        => err # NoError

\* C6: once check_types() has succeeded on a MethodCall, static_type() on it
\* returns the return type of the method on the receiver's static type,
\* whatever the receiver's variant; also for a receiver that passes its own
\* check_types().
C6_CheckedThenTyped ==
    (/\ Typed /\ IsMethodCall(tree) /\ first = NoError
     /\ check_types(tree.receiver).err = NoError)
        => /\ err = NoError
           /\ ret = method_named(static_type(tree.receiver).value,
                                 tree.method_name).return_type

C8_NothingMutated ==
    [][(HasTree /\ call'.op \in {"check_types", "static_type"})
          => /\ stack' = stack
             /\ (call'.op = "check_types" => err' = first')
             /\ (call'.op = "static_type" /\ tree.cls = "Variable")
                    => ret' = tree.declared_type]_vars

C8_Witness ==
    /\ Checked /\ again
    /\ IsMethodCall(tree) /\ Len(tree.args) > 0
    /\ err # NoError

\* C9: when an argument of a MethodCall or ConstructorCall fails its own
\* check_types(), check_types() on the call raises the error of the leftmost
\* such argument i, having validated the arguments 1..i in that order, each
\* of them entirely, and nothing else: no argument right of i and none of
\* the call's own checks.
C9_LeftmostArgumentFails ==
    (/\ Checked
     /\ IsMethodCall(tree) \/ IsConstructorCall(tree)
     /\ ~AllArgsPass(tree))
        => LET i == LeftmostFailingArg(tree)
           IN /\ err = check_types(tree.args[i]).err
              /\ Len(log) = i
              /\ \A j \in 1..i :
                    log[j] = ArgStep(j, check_types(tree.args[j]).log)

C9_Witness ==
    /\ Checked /\ IsMethodCall(tree)
    /\ FailingArgs(tree) = {1, 2}
    /\ check_types(tree.args[1]).err # check_types(tree.args[2]).err
    /\ tree.receiver.cls = "NullLiteral"

\* The steps "before" and "after" both occur in the log, in that order.
Before(steps, before, after) ==
    \E i, j \in 1..Len(steps) :
        i < j /\ steps[i].step = before /\ steps[j].step = after

\* C10: in MethodCall.check_types(), when the arguments pass and the
\* receiver's static type is a subtype of Type.object without a method of
\* the name, the call raises the lattice's NoSuchMethod, not JavaTypeError,
\* after the reference-type test and before any test of the arguments
\* against a signature; a receiver type that is no subtype of Type.object
\* raises "does not have methods" and the method is never looked up.
C10_LookupFailureUnwrapped ==
    (/\ Checked /\ IsMethodCall(tree) /\ AllArgsPass(tree)
     /\ static_type(tree.receiver).err = NoError)
        => LET t == static_type(tree.receiver).value
           IN /\ (is_subtype_of(t, Type_object) /\ ~has_method(t, tree.method_name))
                     => /\ err = NoSuchMethod(t, tree.method_name)
                        /\ Before(log, "is_subtype_of", "method_named")
                        /\ "check_arguments" \notin StepsOf(log)
              /\ ~is_subtype_of(t, Type_object)
                     => /\ DoesNotHaveMethods(err)
                        /\ "method_named" \notin StepsOf(log)
              /\ err.kind = "NoSuchMethod"
                     => Before(log, "is_subtype_of", "method_named")

C10_Witness ==
    /\ Checked /\ IsMethodCall(tree) /\ AllArgsPass(tree)
    /\ static_type(tree.receiver).err = NoError
    /\ static_type(tree.receiver).value = Type_Shape
    /\ tree.method_name = "add"
    /\ Len(tree.args) = 2

====
